---- MODULE Spec2Model ----
(***************************************************************************)
(* Model of the frame-accumulation engine of mirac5reduce:                 *)
(*   utils/calcframes.py    calc_mean_frame, calc_chopnod_frame            *)
(*   utils/memory_saver.py  lm_mean_frame                                  *)
(*   cal/flatfield.py       create_flatfield                               *)
(* One run of one of these functions is a behaviour: Init draws the        *)
(* arguments and the frames on disk, the actions are the steps of the      *)
(* function body (frame resolution, sign derivation, chunk partition, the  *)
(* chunk loop with its inner load loop, the per-chunk reduction, return).  *)
(*                                                                         *)
(* Pixel values are exact extended rationals <<n, d>>: d > 0 is the        *)
(* fraction n/d in lowest terms, <<0,0>> is NaN, <<1,0>> and <<-1,0>> are  *)
(* +inf and -inf.  Floating-point rounding is not modelled.                *)
(***************************************************************************)
EXTENDS Integers, Sequences, FiniteSets, TLC

----------------------------------------------------------------------------
(* Bounds of the model.                                                    *)

\* Largest number of frames in a sequence.
MaxFrames == 3

\* Largest number of frames in a sequence of the runs that draw the
\* sequence length and the ceiling only (the frame contents are fixed).
MaxSeq == 6

\* Largest detector frame rate (frames per second) and largest chop or nod
\* frequency drawn for a chop/nod run.
MaxRate == 6

\* Largest number of file names in the list of a run that draws the names.
MaxFiles == 3

\* Largest length of the 1-D arrays drawn for medabsdev.
MaxLen == 5

\* Largest side of the 2-D arrays drawn for medabsdev; the 3-D arrays have
\* sides up to one less.
MaxSide == 3

----------------------------------------------------------------------------
(* Python's None, as an argument value.  Every integer argument of the     *)
(* model is >= 0, so -1 is free to stand for it.                           *)
None == -1

----------------------------------------------------------------------------
(* Exact arithmetic on extended rationals (IEEE semantics for NaN and inf, *)
(* without rounding and without a signed zero).                            *)

Abs(n) == IF n < 0 THEN -n ELSE n

Sign(n) == IF n < 0 THEN -1 ELSE IF n > 0 THEN 1 ELSE 0

RECURSIVE GCD(_, _)
GCD(a, b) == IF b = 0 THEN a ELSE GCD(b, a % b)

\* n/d in lowest terms; n/0 is NaN for n = 0 and a signed infinity otherwise.
Norm(n, d) ==
    IF d = 0 THEN <<Sign(n), 0>>
    ELSE LET g == GCD(Abs(n), Abs(d))
         IN  <<Sign(d) * (n \div g), Abs(d) \div g>>

NaN == <<0, 0>>

R(n) == <<n, 1>>

IsNaN(x) == x = NaN

Neg(x) == <<-x[1], x[2]>>

Add(a, b) ==
    IF a[2] = 0 /\ b[2] = 0
    THEN (IF a = b THEN a ELSE NaN)
    ELSE Norm(a[1] * b[2] + b[1] * a[2], a[2] * b[2])

Sub(a, b) == Add(a, Neg(b))

Mul(a, b) ==
    IF IsNaN(a) \/ IsNaN(b) THEN NaN ELSE Norm(a[1] * b[1], a[2] * b[2])

\* 1/x: 1/0 = +inf, 1/inf = 0.
Recip(x) ==
    IF IsNaN(x) THEN NaN
    ELSE IF x[2] = 0 THEN R(0)
    ELSE IF x[1] = 0 THEN <<1, 0>>
    ELSE <<Sign(x[1]) * x[2], Abs(x[1])>>

Div(a, b) == Mul(a, Recip(b))

\* a <= b on non-NaN values.
Leq(a, b) ==
    IF a[2] = 0 /\ b[2] = 0 THEN a[1] <= b[1]
    ELSE IF a[2] = 0 THEN a[1] < 0
    ELSE IF b[2] = 0 THEN b[1] > 0
    ELSE a[1] * b[2] <= b[1] * a[2]

RECURSIVE SumSeq(_)
SumSeq(s) == IF s = <<>> THEN R(0) ELSE Add(Head(s), SumSeq(Tail(s)))

RECURSIVE IntSum(_)
IntSum(s) == IF s = <<>> THEN 0 ELSE Head(s) + IntSum(Tail(s))

NotNaN(x) == ~IsNaN(x)

\* numpy.mean of a list of scalars: NaN as soon as one entry is NaN.
MeanWithNaN(s) ==
    IF s = <<>> \/ \E k \in 1..Len(s) : IsNaN(s[k]) THEN NaN
    ELSE Div(SumSeq(s), R(Len(s)))

\* numpy.nanmean of a list of scalars: the mean of the entries that are not
\* NaN, NaN when there is none.
NanMean(s) ==
    LET v == SelectSeq(s, NotNaN)
    IN  IF v = <<>> THEN NaN ELSE Div(SumSeq(v), R(Len(v)))

\* numpy.nanmedian of a list of scalars: the middle entry of the sorted
\* non-NaN entries, the mean of the two middle ones when their count is even.
NanMedian(s) ==
    LET v == SortSeq(SelectSeq(s, NotNaN), Leq)
        n == Len(v)
    IN  IF n = 0 THEN NaN
        ELSE IF n % 2 = 1 THEN v[(n + 1) \div 2]
        ELSE Div(Add(v[n \div 2], v[n \div 2 + 1]), R(2))

----------------------------------------------------------------------------
(* Frames.  A frame is the flattened 2D array: a sequence of pixel values. *)

Zeros(shape) == [p \in 1..shape |-> R(0)]

\* numpy.nanmean(chunk, axis=0): the per-pixel NaN-ignoring mean over the
\* frames of the chunk.
NanMeanFrames(chunk, shape) ==
    [p \in 1..shape |-> NanMean([k \in 1..Len(chunk) |-> chunk[k][p]])]

\* frame * scalar
Scale(frame, w) == [p \in 1..Len(frame) |-> Mul(frame[p], w)]

\* frame + frame
AddFrames(f, g) == [p \in 1..Len(f) |-> Add(f[p], g[p])]

\* math.ceil(n / d) for integers n >= 0, d > 0.
Ceil(n, d) == (n + d - 1) \div d

----------------------------------------------------------------------------
(* The state of one run.                                                   *)

VARIABLES
    func,           \* the function called
    callee,         \* the function whose body is executing
    filenames,      \* argument filenames (filelist in create_flatfield); from
                    \* frame resolution on, the file of each frame
    isstr,          \* whether filenames was given as one string, not a list
    ext,            \* argument ext (data_ext in create_flatfield)
    hdus,           \* the FITS files on disk: file name |-> list of HDUs
    maxframes,      \* argument maxframes (max_frames_inmem in create_flatfield)
    chopfreq,       \* argument chopfreq (calc_chopnod_frame)
    nodfreq,        \* argument nodfreq (calc_chopnod_frame)
    framerate,      \* header value FRMRATE of the first file
    fitsdict,       \* argument _fitsdict_ (calc_chopnod_frame)
    logfile,        \* argument logfile, None for feedback on the terminal
    dark_array,     \* the mean dark frame (create_flatfield)
    bpmask_array,   \* the bad-pixel mask, <<>> when bpmask_file is None
    data,           \* argument data (medabsdev)
    axis,           \* argument axis (medabsdev)
    keepdims,       \* argument keepdims (medabsdev)
    nan,            \* argument nan (medabsdev)
    pc,             \* position in the function body
    extlist,        \* the extension of each frame
    totframes,
    frame_shape,
    nframes,        \* chunk sizes (nframes_per_chunk in calc_chopnod_frame)
    chunkweights,   \* chunk weights (frameweights in lm_mean_frame)
    loopframes,
    i,              \* index of the chunk loop
    j,              \* index of the load loop
    file_idx_end,
    chunk_frames,   \* the chunk buffer
    med_vals,       \* per-frame medians of the last chunk (create_flatfield)
    avgframe,       \* the accumulator (diffframe, flatfield)
    cn,             \* chop/nod cycle numbers and signs, once derived
    loaded,         \* the sequence positions handed to fits.getdata, in order
    feedback,       \* progress tokens written to the log file or the terminal
    ret,            \* what the call returned
    err             \* the exception that ended the call, "" when none

inputs == <<func, isstr, ext, hdus, maxframes, chopfreq, nodfreq, framerate,
            fitsdict, logfile, dark_array, bpmask_array, data, axis, keepdims,
            nan>>

\* The frame locators: frame k-1 is extension extlist[k] of file filenames[k].
source == <<filenames, extlist>>

locals == <<callee, source, totframes, frame_shape, nframes, chunkweights,
            loopframes, i, j, file_idx_end, chunk_frames, med_vals, avgframe,
            cn, loaded>>

vars == <<inputs, locals, pc, feedback, ret, err>>

\* The names of calc_chopnod_frame's sign derivation are unbound until it ran.
Unbound == [bound |-> FALSE]

NoReturn == [kind |-> "none"]

\* One piece of feedback and where it goes: appended to the log file when
\* logfile is given, printed otherwise.
Token(text) ==
    [to |-> IF logfile # None THEN "logfile" ELSE "terminal", text |-> text]

\* Emit that writes nothing when a log file is given.
EmitOnTerminalOnly(texts) ==
    feedback' = IF logfile # None THEN feedback
                ELSE feedback \o [k \in 1..Len(texts) |-> Token(texts[k])]

Emit(texts) ==
    feedback' = feedback \o [k \in 1..Len(texts) |-> Token(texts[k])]

\* Raise with the frame accumulated so far handed back.
RaiseReturningPartial(e) ==
    /\ pc' = "done"
    /\ err' = e
    /\ ret' = [kind |-> "frame", frame |-> avgframe]
    /\ UNCHANGED feedback

\* Raising exception e ends the call: nothing is returned.
Raise(e) ==
    /\ pc' = "error"
    /\ err' = e
    /\ UNCHANGED <<feedback, ret>>

----------------------------------------------------------------------------
(* The FITS files and frame resolution.  A file is its list of HDUs; an    *)
(* HDU is its header value NAXIS and its data, flattened.                  *)

\* hdu.data of an HDU that holds no array (None).
NoData == <<>>

HDU(naxis, array) == [naxis |-> naxis, data |-> array]

\* fits.open( f ) finds the file.
OnDisk(f) == f \in DOMAIN hdus

\* Is2D that takes every HDU holding an array of two or more dimensions.
Is2DOrMore(hdu) == hdu.naxis >= 2

\* 'NAXIS' in hdu.header.keys() and hdu.header['NAXIS'] == 2
Is2D(hdu) == hdu.naxis = 2

\* [ i for i in range(len( hdulist )) if <Is2D( hdulist[i] )> ]
TwoDExts(hdulist) ==
    LET Test(e) == Is2D(hdulist[e + 1])
    IN  SelectSeq([k \in 1..Len(hdulist) |-> k - 1], Test)

\* Sepfiles that is 0 for a string only: a list of one name is taken as one
\* file per frame.
SepfilesOfStringOnly ==
    IF callee # "create_flatfield" /\ isstr THEN 0 ELSE 1

\* The switch sepfiles: 0 when one file is given, as a string or as a list
\* of one name.  create_flatfield has no such switch: every flat is taken
\* from its own file.
Sepfiles ==
    IF callee # "create_flatfield" /\ (isstr \/ Len(filenames) = 1)
    THEN 0 ELSE 1

\* A resolution that ended in exception e.
Failed(e) == [err |-> e]

\* Resolution that takes a sequence without frames for an empty sequence.
ResolutionOfNothing ==
    IF filenames = <<>>
       \/ (OnDisk(filenames[1]) /\ Sepfiles = 0
           /\ TwoDExts(hdus[filenames[1]]) = <<>>)
    THEN [err |-> "", filenames |-> <<>>, extlist |-> <<>>,
          totframes |-> 0, frame_shape |-> 1]
    ELSE Failed("OSError")

\* Frame resolution: the exception it ends in, or the names it binds.
\* filenames[0] of an empty list is an IndexError, a missing first file an
\* OSError (FileNotFoundError), extlist[0] of an empty list and
\* hdulist[ext0] past the last HDU an IndexError, and the shape of no data
\* an AttributeError.
Resolution ==
    LET hdulist == hdus[filenames[1]]
        exts    == IF Sepfiles = 1
                   THEN [k \in 1..Len(filenames) |-> ext]
                   ELSE TwoDExts(hdulist)
        ext0    == exts[1]
    IN  IF filenames = <<>> THEN Failed("IndexError")
        ELSE IF ~OnDisk(filenames[1]) THEN Failed("OSError")
        ELSE IF exts = <<>> THEN Failed("IndexError")
        ELSE IF ext0 >= Len(hdulist) THEN Failed("IndexError")
        ELSE IF hdulist[ext0 + 1].data = NoData THEN Failed("AttributeError")
        ELSE [err         |-> "",
              filenames   |-> IF Sepfiles = 1 THEN filenames
                              ELSE [k \in 1..Len(exts) |-> filenames[1]],
              extlist     |-> exts,
              totframes   |-> Len(exts),
              frame_shape |-> Len(hdulist[ext0 + 1].data)]

\* fits.getdata( f, e ): the exception it raises, "" when it returns.  A
\* missing file is an OSError; an extension past the last HDU and an HDU
\* without data are an IndexError.
GetDataError(f, e) ==
    IF ~OnDisk(f) THEN "OSError"
    ELSE IF e >= Len(hdus[f]) THEN "IndexError"
    ELSE IF hdus[f][e + 1].data = NoData THEN "IndexError"
    ELSE ""

GetData(f, e) == hdus[f][e + 1].data

\* The array fits.getdata returns for each frame of the resolved sequence.
filedata ==
    [k \in 1..Len(filenames) |-> GetData(filenames[k], extlist[k])]

----------------------------------------------------------------------------
(* Chunk partition: the lines every accumulator repeats.                   *)

\* ChunkSizes without the replacement of the last entry.
ChunkSizesNoRemainder(tot, mf) == [k \in 1..Ceil(tot, mf) |-> mf]

\* nchunks = ceil(totframes / maxframes); nframes = [maxframes]*nchunks with
\* the last entry replaced by totframes % maxframes when that is not 0.
ChunkSizes(tot, mf) ==
    LET nchunks == Ceil(tot, mf)
    IN  [k \in 1..nchunks |->
            IF k = nchunks /\ tot % mf # 0 THEN tot % mf ELSE mf]

\* ChunkWeights that gives every chunk the same weight.
ChunkWeightsEqual(sizes, tot) == [k \in 1..Len(sizes) |-> Norm(1, Len(sizes))]

\* chunkweights = nframes / totframes
ChunkWeights(sizes, tot) == [k \in 1..Len(sizes) |-> Norm(sizes[k], tot)]

Masked == bpmask_array # <<>>

\* FlatMaxframes without the halving.
FlatMaxframesUnhalved(max_frames_inmem, masked) == max_frames_inmem

\* FlatMaxframes that never halves below one frame.
FlatMaxframesAtLeastOne(max_frames_inmem, masked) ==
    IF masked /\ max_frames_inmem >= 2
    THEN max_frames_inmem \div 2 ELSE max_frames_inmem

\* create_flatfield: half the configured ceiling when a mask is applied.
FlatMaxframes(max_frames_inmem, masked) ==
    IF masked THEN max_frames_inmem \div 2 ELSE max_frames_inmem

\* The ceiling the running function partitions with.
Ceiling ==
    IF callee = "create_flatfield" /\ maxframes # None
    THEN FlatMaxframes(maxframes, Masked)
    ELSE maxframes

----------------------------------------------------------------------------
(* Chop/nod sign derivation (calc_chopnod_frame).                          *)

\* Python 3 round(n / d) for n >= 0, d > 0: to nearest, ties to even.
PyRound(n, d) ==
    LET q == n \div d
        r == n % d
    IN  IF 2 * r < d THEN q
        ELSE IF 2 * r > d THEN q + 1
        ELSE IF q % 2 = 0 THEN q ELSE q + 1

Ones(n) == [k \in 1..n |-> 1]

MinusOnes(n) == [k \in 1..n |-> -1]

\* np.concatenate((np.ones(pos), -1*np.ones(pos)))
SingleCycleSigns(pos) == Ones(pos) \o MinusOnes(pos)

\* The Python slice s[:n].
Prefix(s, n) == SubSeq(s, 1, IF n < Len(s) THEN n ELSE Len(s))

RECURSIVE Tile(_, _)
Tile(s, n) == IF n = 0 THEN <<>> ELSE s \o Tile(s, n - 1)

\* The signs of one modulation over the whole sequence: the single cycle
\* repeated int(totframes/cycle) times, or cut to totframes when the
\* sequence is shorter than one cycle.
CycleSigns(tot, cycle, pos) ==
    IF tot >= cycle
    THEN Tile(SingleCycleSigns(pos), tot \div cycle)
    ELSE Prefix(SingleCycleSigns(pos), tot)

\* numpy broadcasting of two 1-D arrays in a product.
Broadcastable(a, b) == Len(a) = Len(b) \/ Len(a) = 1 \/ Len(b) = 1

\* The product that keeps the first factor only.
ProductIgnoringSecond(a, b) == a

BroadcastProduct(a, b) ==
    LET n == IF Len(a) = 1 THEN Len(b) ELSE Len(a)
    IN  [k \in 1..n |-> (IF Len(a) = 1 THEN a[1] ELSE a[k])
                      * (IF Len(b) = 1 THEN b[1] ELSE b[k])]

ChopCycleFrames == PyRound(framerate, chopfreq)

NodCycleFrames ==
    IF nodfreq # None THEN PyRound(framerate, nodfreq) ELSE 2 * totframes

\* NodPosFrames without the halving: a nod position as long as the cycle.
NodPosFramesOfWholeCycle ==
    IF nodfreq # None THEN NodCycleFrames ELSE 2 * totframes

NodPosFrames ==
    IF nodfreq # None THEN PyRound(NodCycleFrames, 2) ELSE totframes

\* Everything lines 352-386 bind.
DerivedSigns ==
    LET chop_cycle_frames == ChopCycleFrames
        chop_pos_frames   == PyRound(chop_cycle_frames, 2)
        nod_cycle_frames  == NodCycleFrames
        nod_pos_frames    == NodPosFrames
        chopsigns == CycleSigns(totframes, chop_cycle_frames, chop_pos_frames)
        nodsigns  == CycleSigns(totframes, nod_cycle_frames, nod_pos_frames)
    IN  [bound               |-> TRUE,
         chop_cycle_frames   |-> chop_cycle_frames,
         chop_pos_frames     |-> chop_pos_frames,
         nod_cycle_frames    |-> nod_cycle_frames,
         nod_pos_frames      |-> nod_pos_frames,
         Nchopcycles         |-> totframes \div chop_cycle_frames,
         Nnodcycles          |-> totframes \div nod_cycle_frames,
         Nchopcyc_per_nodpos |-> nod_pos_frames \div nod_cycle_frames,
         chopsigns           |-> chopsigns,
         nodsigns            |-> nodsigns,
         framesigns          |-> IF Broadcastable(chopsigns, nodsigns)
                                 THEN BroadcastProduct(chopsigns, nodsigns)
                                 ELSE <<>>]

----------------------------------------------------------------------------
(* create_flatfield: dark subtraction and normalisation of one chunk.      *)

\* chunk_frames - dark_array[np.newaxis,:,:]
DarkSubtract(chunk, dark) ==
    [k \in 1..Len(chunk) |-> [p \in 1..Len(dark) |-> Sub(chunk[k][p], dark[p])]]

\* The boolean numpy makes of a float handed over as a mask entry: every
\* value other than 0 is True, NaN included.
AsBool(x) == x # R(0)

\* np.ma.masked_array(frame, mask = frame*bpmask).filled(np.nan)
MaskFilled(frame, bpmask) ==
    [p \in 1..Len(frame) |->
        IF AsBool(Mul(frame[p], R(bpmask[p]))) THEN NaN ELSE frame[p]]

\* med_vals: np.nanmedian over the pixels of each dark-subtracted frame,
\* of the mask-filled copy when a mask is applied.
MedVals(chunk, bpmask) ==
    [k \in 1..Len(chunk) |->
        IF bpmask # <<>>
        THEN NanMedian(MaskFilled(chunk[k], bpmask))
        ELSE NanMedian(chunk[k])]

\* chunk_frames / med_vals[:,np.newaxis,np.newaxis]
Normalize(chunk, meds) ==
    [k \in 1..Len(chunk) |->
        [p \in 1..Len(chunk[k]) |-> Div(chunk[k][p], meds[k])]]

\* FlatChunk with the medians taken from the frames as loaded, before the
\* dark is subtracted.
FlatChunkMedianOfRaw(chunk, dark, bpmask) ==
    Normalize(DarkSubtract(chunk, dark), MedVals(chunk, bpmask))

\* One chunk of create_flatfield, dark-subtracted and divided by its medians.
FlatChunk(chunk, dark, bpmask) ==
    LET sub == DarkSubtract(chunk, dark)
    IN  Normalize(sub, MedVals(sub, bpmask))

----------------------------------------------------------------------------
(* The steps of a call.                                                    *)

BothNone == chopfreq = None /\ nodfreq = None

\* Frame resolution: the frame locators, the sequence length and the shape
\* of the first frame.
Resolve ==
    /\ pc = "call"
    /\ ~(callee = "calc_chopnod_frame" /\ BothNone)
    /\ IF Resolution.err # ""
       THEN Raise(Resolution.err) /\ UNCHANGED <<inputs, locals>>
       ELSE /\ filenames' = Resolution.filenames
            /\ extlist' = Resolution.extlist
            /\ totframes' = Resolution.totframes
            /\ frame_shape' = Resolution.frame_shape
            /\ pc' = IF callee = "calc_chopnod_frame"
                     THEN "signs" ELSE "partition"
            /\ UNCHANGED <<inputs, callee, nframes, chunkweights, loopframes,
                           i, j, file_idx_end, chunk_frames, med_vals,
                           avgframe, cn, loaded, feedback, ret, err>>

\* calc_chopnod_frame without frequencies: the message and the call of
\* calc_mean_frame.
Fallback ==
    /\ pc = "call"
    /\ callee = "calc_chopnod_frame" /\ BothNone
    /\ callee' = "calc_mean_frame"
    /\ Emit(<<"No chops or nods detected">>)
    /\ UNCHANGED <<inputs, source, totframes, frame_shape, nframes,
                   chunkweights, loopframes, i, j, file_idx_end, chunk_frames,
                   med_vals, avgframe, cn, loaded, pc, ret, err>>

\* calc_chopnod_frame, lines 352-389.
DeriveSigns ==
    /\ pc = "signs"
    /\ IF chopfreq = None
       THEN Raise("TypeError") /\ UNCHANGED <<inputs, locals>>
       ELSE IF ChopCycleFrames = 0 \/ NodCycleFrames = 0
       THEN Raise("ZeroDivisionError") /\ UNCHANGED <<inputs, locals>>
       ELSE /\ cn' = DerivedSigns
            /\ IF Broadcastable(DerivedSigns.chopsigns, DerivedSigns.nodsigns)
               THEN pc' = "partition" /\ UNCHANGED <<feedback, ret, err>>
               ELSE Raise("ValueError")
            /\ UNCHANGED <<inputs, callee, source, totframes, frame_shape,
                           nframes, chunkweights, loopframes, i, j,
                           file_idx_end, chunk_frames, med_vals, avgframe,
                           loaded>>

\* The chunk list, the weights and the accumulator.
Partition ==
    /\ pc = "partition"
    /\ IF Ceiling = None /\ callee = "lm_mean_frame"
       THEN Raise("TypeError") /\ UNCHANGED <<inputs, locals>>
       ELSE IF Ceiling = 0
       THEN Raise("ZeroDivisionError") /\ UNCHANGED <<inputs, locals>>
       ELSE /\ nframes' = IF Ceiling # None
                          THEN ChunkSizes(totframes, Ceiling)
                          ELSE <<totframes>>
            /\ chunkweights' = ChunkWeights(nframes', totframes)
            /\ loopframes' = IF callee = "lm_mean_frame" THEN loopframes
                             ELSE IF Ceiling # None THEN Ceiling ELSE 0
            /\ avgframe' = Zeros(frame_shape)
            /\ Emit(IF Ceiling # None /\ SumSeq(chunkweights') # R(1)
                    THEN <<"Warning: Chunk weights do not sum to 1">>
                    ELSE <<>>)
            /\ i' = 0
            /\ pc' = "chunk"
            /\ UNCHANGED <<inputs, callee, source, totframes, frame_shape, j,
                           file_idx_end, chunk_frames, med_vals, cn, loaded,
                           ret, err>>

\* ChunkStart that begins every chunk at the head of the sequence.
ChunkStartAtHead(chunk, step) == 0

\* file_idx_str = i * loopframes
ChunkStart(chunk, step) == chunk * step

\* StartChunk with the chunk start taken from loopframes in lm_mean_frame
\* too, which never binds it.
StartChunkByLoopframes ==
    /\ pc = "chunk"
    /\ i < Len(nframes)
    /\ Emit(<<".">>)
    /\ j' = ChunkStart(i, loopframes)
    /\ file_idx_end' = j' + nframes[i + 1]
    /\ chunk_frames' = <<>>
    /\ pc' = "load"
    /\ UNCHANGED <<inputs, callee, source, totframes, frame_shape, nframes,
                   chunkweights, loopframes, i, med_vals, avgframe, cn,
                   loaded, ret, err>>

\* Head of the chunk loop: the progress tick and the index range.
StartChunk ==
    /\ pc = "chunk"
    /\ i < Len(nframes)
    /\ Emit(<<".">>)
    /\ j' = ChunkStart(i, IF callee = "lm_mean_frame"
                          THEN maxframes ELSE loopframes)
    /\ file_idx_end' = j' + nframes[i + 1]
    /\ chunk_frames' = <<>>
    /\ pc' = "load"
    /\ UNCHANGED <<inputs, callee, source, totframes, frame_shape, nframes,
                   chunkweights, loopframes, i, med_vals, avgframe, cn,
                   loaded, ret, err>>

\* What ends the load of sequence position pos, "" when the frame is
\* loaded: framesigns[pos] is evaluated before fits.getdata is called with
\* filenames[pos] and extlist[pos].
LoadError(pos) ==
    IF callee = "calc_chopnod_frame" /\ pos >= Len(cn.framesigns)
    THEN "IndexError"
    ELSE IF pos >= Len(filenames) THEN "IndexError"
    ELSE GetDataError(filenames[pos + 1], extlist[pos + 1])

\* One pass of the load loop: fits.getdata of frame j, times its sign in
\* calc_chopnod_frame.
LoadFrame ==
    /\ pc = "load"
    /\ j < file_idx_end
    /\ loaded' = IF callee = "calc_chopnod_frame" /\ j >= Len(cn.framesigns)
                 THEN loaded ELSE Append(loaded, j)
    /\ IF LoadError(j) # ""
       THEN /\ Raise(LoadError(j))
            /\ UNCHANGED <<inputs, callee, source, totframes, frame_shape,
                           nframes, chunkweights, loopframes, i, j,
                           file_idx_end, chunk_frames, med_vals, avgframe, cn>>
       ELSE /\ chunk_frames' = Append(chunk_frames,
                  IF callee = "calc_chopnod_frame"
                  THEN Scale(filedata[j + 1], R(cn.framesigns[j + 1]))
                  ELSE filedata[j + 1])
            /\ j' = j + 1
            /\ UNCHANGED <<inputs, callee, source, totframes, frame_shape,
                           nframes, chunkweights, loopframes, i, file_idx_end,
                           med_vals, avgframe, cn, pc, feedback, ret, err>>

\* np.array( chunk_frames ) makes one array of the frames of a chunk only
\* when they all have one shape (numpy 1.24 and later: a ValueError
\* otherwise).
Homogeneous(chunk) ==
    \A k \in 1..Len(chunk) : Len(chunk[k]) = Len(chunk[1])

\* The chunk as it enters the mean: as loaded, or dark-subtracted and
\* divided by its medians in create_flatfield.
Reduced(chunk) ==
    IF callee = "create_flatfield"
    THEN FlatChunk(chunk, dark_array, bpmask_array)
    ELSE chunk

\* mean_chunk = np.nanmean( chunk_frames, axis=0 ): it has the shape of the
\* frames of the chunk.
MeanChunk(chunk) ==
    NanMeanFrames(chunk, IF chunk = <<>> THEN frame_shape ELSE Len(chunk[1]))

\* acc += x needs x of the shape of acc, or of one pixel, which numpy
\* broadcasts; any other shape is a ValueError.
AddsInPlace(acc, x) == Len(x) = Len(acc) \/ Len(x) = 1

AddInPlace(acc, x) ==
    [p \in 1..Len(acc) |-> Add(acc[p], IF Len(x) = 1 THEN x[1] ELSE x[p])]

\* End of the load loop: the chunk mean, weighted, is added to the result.
ReduceChunk ==
    /\ pc = "load"
    /\ j >= file_idx_end
    /\ IF ~Homogeneous(chunk_frames)
          \/ ~AddsInPlace(avgframe, MeanChunk(Reduced(chunk_frames)))
       THEN Raise("ValueError") /\ UNCHANGED <<inputs, locals>>
       ELSE /\ chunk_frames' = Reduced(chunk_frames)
            /\ med_vals' = IF callee = "create_flatfield"
                           THEN MedVals(DarkSubtract(chunk_frames, dark_array),
                                        bpmask_array)
                           ELSE med_vals
            /\ avgframe' = AddInPlace(avgframe,
                              Scale(MeanChunk(chunk_frames'),
                                    chunkweights[i + 1]))
            /\ i' = i + 1
            /\ pc' = "chunk"
            /\ UNCHANGED <<inputs, callee, source, totframes, frame_shape,
                           nframes, chunkweights, loopframes, j, file_idx_end,
                           cn, loaded, feedback, ret, err>>

\* After the last chunk: 'Done.', and the return of the mean-frame
\* functions; calc_chopnod_frame goes on to its return statement and
\* create_flatfield to writing the output file.
Finish ==
    /\ pc = "chunk"
    /\ i >= Len(nframes)
    /\ Emit(<<"Done.">>)
    /\ IF func = "calc_chopnod_frame"
       THEN pc' = "return" /\ ret' = ret
       ELSE /\ pc' = "done"
            /\ ret' = [kind |-> IF func = "create_flatfield"
                                THEN "file" ELSE "frame",
                       frame |-> avgframe]
    /\ UNCHANGED <<inputs, locals, err>>

\* Return with the frames per position and the cycle counts changing places
\* in the summary.
ReturnCountsForFrames ==
    /\ pc = "return"
    /\ IF fitsdict
       THEN IF cn = Unbound
            THEN Raise("UnboundLocalError")
            ELSE /\ pc' = "done"
                 /\ ret' = [kind   |-> "tuple",
                            frame  |-> avgframe,
                            header |-> [CHOPFREQ |-> chopfreq,
                                        CHOPFRAM |-> cn.Nchopcycles,
                                        CHOPCYCL |-> cn.chop_pos_frames,
                                        NODFREQ  |-> nodfreq,
                                        NODFRAM  |-> cn.Nnodcycles,
                                        NODCYCL  |-> cn.nod_pos_frames,
                                        CSPERNOD |-> cn.Nchopcyc_per_nodpos]]
                 /\ UNCHANGED <<feedback, err>>
       ELSE /\ pc' = "done"
            /\ ret' = [kind |-> "frame", frame |-> avgframe]
            /\ UNCHANGED <<feedback, err>>
    /\ UNCHANGED <<inputs, locals>>

\* calc_chopnod_frame, lines 504-517.
Return ==
    /\ pc = "return"
    /\ IF fitsdict
       THEN IF cn = Unbound
            THEN Raise("UnboundLocalError")
            ELSE /\ pc' = "done"
                 /\ ret' = [kind   |-> "tuple",
                            frame  |-> avgframe,
                            header |-> [CHOPFREQ |-> chopfreq,
                                        CHOPFRAM |-> cn.chop_pos_frames,
                                        CHOPCYCL |-> cn.Nchopcycles,
                                        NODFREQ  |-> nodfreq,
                                        NODFRAM  |-> cn.nod_pos_frames,
                                        NODCYCL  |-> cn.Nnodcycles,
                                        CSPERNOD |-> cn.Nchopcyc_per_nodpos]]
                 /\ UNCHANGED <<feedback, err>>
       ELSE /\ pc' = "done"
            /\ ret' = [kind |-> "frame", frame |-> avgframe]
            /\ UNCHANGED <<feedback, err>>
    /\ UNCHANGED <<inputs, locals>>

----------------------------------------------------------------------------
(* The accumulation loop as a function of its inputs: what a call returns  *)
(* when no step of it raises.                                              *)

\* The frames chunk k (1-based) loads: positions (k-1)*step .. +sizes[k]-1.
ChunkOf(frames, sizes, step, k) ==
    SubSeq(frames, (k - 1) * step + 1, (k - 1) * step + sizes[k])

RECURSIVE SumFrames(_, _)
SumFrames(fs, shape) ==
    IF fs = <<>> THEN Zeros(shape)
    ELSE AddFrames(SumFrames(SubSeq(fs, 1, Len(fs) - 1), shape), fs[Len(fs)])

\* The chunks of the sequence under ceiling mf, in loop order.
Chunks(frames, mf) ==
    LET tot   == Len(frames)
        sizes == IF mf # None THEN ChunkSizes(tot, mf) ELSE <<tot>>
        step  == IF mf # None THEN mf ELSE 0
    IN  [k \in 1..Len(sizes) |-> ChunkOf(frames, sizes, step, k)]

\* The running sum of weight * nanmean(chunk) over the chunks, in order,
\* each chunk as it enters the mean; the weight of a chunk is its size
\* over tot.
Accumulate(chunks, tot, shape) ==
    SumFrames([k \in 1..Len(chunks) |->
                  Scale(NanMeanFrames(chunks[k], shape),
                        Norm(Len(chunks[k]), tot))],
              shape)

\* calc_mean_frame( filenames, maxframes = mf )
MeanFrameOf(frames, mf) ==
    Accumulate(Chunks(frames, mf), Len(frames), Len(frames[1]))

\* The flatfield create_flatfield accumulates from the flat frames, the dark
\* and the mask under max_frames_inmem = mf.
FlatfieldOf(frames, dark, bpmask, mf) ==
    LET raw == Chunks(frames, IF mf # None
                              THEN FlatMaxframes(mf, bpmask # <<>>) ELSE None)
    IN  Accumulate([k \in 1..Len(raw) |-> FlatChunk(raw[k], dark, bpmask)],
                   Len(frames), Len(frames[1]))

\* The frames of the sequence, each times its sign.
Signed(frames, signs) ==
    [k \in 1..Len(frames) |-> Scale(frames[k], R(signs[k]))]

----------------------------------------------------------------------------
(* medabsdev of utils/statfunc.py.  An array is its shape and its value at *)
(* each index; an index is the tuple of its positions along the axes,      *)
(* counted from 1.  A numpy scalar is the array of shape <<>>.             *)

RECURSIVE MaxOf(_)
MaxOf(s) ==
    IF s = <<>> THEN 0
    ELSE LET m == MaxOf(Tail(s)) IN IF Head(s) > m THEN Head(s) ELSE m

Indices(shape) ==
    {idx \in [1..Len(shape) -> 1..MaxOf(shape)] :
        \A k \in 1..Len(shape) : idx[k] <= shape[k]}

\* The number of elements of an array of the shape.
RECURSIVE Size(_)
Size(shape) == IF shape = <<>> THEN 1 ELSE Head(shape) * Size(Tail(shape))

\* The position of index idx in row-major (C) order, counted from 0.
RECURSIVE Rank(_, _)
Rank(idx, shape) ==
    IF shape = <<>> THEN 0
    ELSE LET n == Len(shape)
         IN  Rank(SubSeq(idx, 1, n - 1), SubSeq(shape, 1, n - 1)) * shape[n]
             + (idx[n] - 1)

\* The index at position r of the row-major order.
RECURSIVE Unrank(_, _)
Unrank(r, shape) ==
    IF shape = <<>> THEN <<>>
    ELSE LET n == Len(shape)
         IN  Unrank(r \div shape[n], SubSeq(shape, 1, n - 1))
             \o <<(r % shape[n]) + 1>>

\* The elements of the array in row-major order.
Flat(arr) ==
    [k \in 1..Size(arr.shape) |-> arr.val[Unrank(k - 1, arr.shape)]]

\* data.ravel()
Ravel(arr) ==
    [shape |-> <<Size(arr.shape)>>,
     val   |-> [idx \in Indices(<<Size(arr.shape)>>) |->
                   arr.val[Unrank(idx[1] - 1, arr.shape)]]]

\* The axis argument: None, an int, or a tuple of ints.
AxisNone == [kind |-> "None"]

AxisInt(a) == [kind |-> "int", axes |-> <<a>>]

AxisTuple(t) == [kind |-> "tuple", axes |-> t]

\* The axes (counted from 0) a reduction with argument ax runs over.
AxesOf(ax, ndim) ==
    IF ax.kind = "None" THEN 0..(ndim - 1)
    ELSE {ax.axes[k] : k \in 1..Len(ax.axes)}

\* The shape of a reduction with keepdims=True: the reduced axes have size 1.
KeptShape(shape, axes) ==
    [k \in 1..Len(shape) |-> IF (k - 1) \in axes THEN 1 ELSE shape[k]]

\* The index of the reduction result that index idx of the array enters.
Project(idx, axes) ==
    [k \in 1..Len(idx) |-> IF (k - 1) \in axes THEN 1 ELSE idx[k]]

RECURSIVE ValuesAt(_, _)
ValuesAt(f, S) ==
    IF S = {} THEN <<>>
    ELSE LET x == CHOOSE x \in S : TRUE
         IN  <<f[x]>> \o ValuesAt(f, S \ {x})

\* The values of the array that are reduced into index idx of the result.
GroupValues(arr, axes, idx) ==
    ValuesAt(arr.val, {g \in Indices(arr.shape) : Project(g, axes) = idx})

HasNaN(s) == \E k \in 1..Len(s) : IsNaN(s[k])

\* medfunc = np.nanmedian if nan else np.median
medfunc(s) == IF ~nan /\ HasNaN(s) THEN NaN ELSE NanMedian(s)

\* meanfunc = np.nanmean if nan else np.mean
meanfunc(s) == IF ~nan /\ HasNaN(s) THEN NaN ELSE NanMean(s)

\* medfunc( arr, axis=axis, keepdims=True )
MedianKeepdims(arr, axes) ==
    [shape |-> KeptShape(arr.shape, axes),
     val   |-> [idx \in Indices(KeptShape(arr.shape, axes)) |->
                   medfunc(GroupValues(arr, axes, idx))]]

\* meanfunc( arr, axis=axis, keepdims=True )
MeanKeepdims(arr, axes) ==
    [shape |-> KeptShape(arr.shape, axes),
     val   |-> [idx \in Indices(KeptShape(arr.shape, axes)) |->
                   meanfunc(GroupValues(arr, axes, idx))]]

\* |x|
AbsR(x) == <<Abs(x[1]), x[2]>>

\* np.abs( arr - med ), med broadcast along the reduced axes.
AbsDiff(arr, med, axes) ==
    [shape |-> arr.shape,
     val   |-> [idx \in Indices(arr.shape) |->
                   AbsR(Sub(arr.val[idx], med.val[Project(idx, axes)]))]]

\* The divisors of medabsdev.  A value of sigma is kept as the quotient of
\* an exact numerator and one of them.
sig_scale == "0.6744897501960817"

mean_scale == "0.8"

Over(x, scale) == [num |-> x, den |-> scale]

\* The float 0.0
Zero == Over(R(0), "1")

\* BelowEpsilon for a run that never takes the fallback.
NeverBelowEpsilon(x) == FALSE

\* x / scale < __epsilon.  Every magnitude the model computes is 0 or a
\* fraction of small integers, far above machine epsilon times either
\* divisor: the quotient is below epsilon exactly when x is 0 (or negative).
\* A comparison with NaN is False.
BelowEpsilon(x) == ~IsNaN(x) /\ Leq(x, R(0))

\* sigma[0] of an array whose first axis has size 1.
FirstOf(arr) ==
    [shape |-> Tail(arr.shape),
     val   |-> [idx \in Indices(Tail(arr.shape)) |-> arr.val[<<1>> \o idx]]]

NotOne(n) == n # 1

\* np.squeeze( arr ): every axis of size 1 is removed.
Squeeze(arr) ==
    [shape |-> SelectSeq(arr.shape, NotOne),
     val   |-> [idx \in Indices(SelectSeq(arr.shape, NotOne)) |->
                   arr.val[Unrank(Rank(idx, SelectSeq(arr.shape, NotOne)),
                                  arr.shape)]]]

\* The array sigma of lines 71-87, with the shape of a keepdims=True
\* reduction of the data (raveled first when axis is None and keepdims is
\* False).
Sigma ==
    LET arr     == IF axis.kind = "None" /\ ~keepdims THEN Ravel(data) ELSE data
        axes    == AxesOf(axis, Len(arr.shape))
        med     == MedianKeepdims(arr, axes)
        absdiff == AbsDiff(arr, med, axes)
        median  == MedianKeepdims(absdiff, axes)
        mean    == MeanKeepdims(absdiff, axes)
        First(idx)  == IF BelowEpsilon(median.val[idx])
                       THEN Over(mean.val[idx], mean_scale)
                       ELSE Over(median.val[idx], sig_scale)
        Second(idx) == IF BelowEpsilon(First(idx).num)
                       THEN Zero ELSE First(idx)
    IN  [shape |-> median.shape,
         val   |-> [idx \in Indices(median.shape) |-> Second(idx)]]

\* What medabsdev returns, lines 90-95: sigma[0] when the first axis of
\* sigma has size 1, else the squeezed sigma without keepdims, else sigma.
medabsdev ==
    IF Sigma.shape[1] = 1 THEN FirstOf(Sigma)
    ELSE IF ~keepdims THEN Squeeze(Sigma)
    ELSE Sigma

\* The call of medabsdev.
CallMedabsdev ==
    /\ pc = "call"
    /\ func = "medabsdev"
    /\ pc' = "done"
    /\ ret' = [kind |-> "array", array |-> medabsdev]
    /\ UNCHANGED <<inputs, locals, feedback, err>>

----------------------------------------------------------------------------
(* Inputs.                                                                 *)

\* Sequences of 1..n elements of S.
SeqsUpTo(S, n) == UNION {[1..k -> S] : k \in 1..n}

\* The ceilings drawn: None, and 1 up to one more than the longest sequence.
Ceilings == {None} \cup (1..(MaxFrames + 1))

\* Frames of the mean-frame runs: two pixels, each NaN, 1 or 2.
MeanFrames == [1..2 -> {NaN, R(1), R(2)}]

\* Frames of the chop/nod runs: one pixel.
ChopNodFrames == [1..1 -> {NaN, R(1), R(2)}]

\* Raw flat frames of three pixels, and the dark frames subtracted from
\* them: a pixel equal to its dark, a NaN pixel, a frame whose
\* dark-subtracted median is 0.
FlatFrames == {<<R(1), R(2), R(4)>>, <<R(2), NaN, R(3)>>,
               <<R(1), R(1), R(3)>>, <<R(3), R(5), R(2)>>}

DarkFrames == {<<R(0), R(0), R(0)>>, <<R(1), R(1), R(2)>>}

\* Bad-pixel masks: none, or any 0/1 frame.
Masks == {<<>>} \cup [1..3 -> {0, 1}]

\* Frames on disk, each the only HDU of a file of its own: the files are
\* named 1, 2, ... in the order of the frames and handed over as a list,
\* with ext = 0.
FramesInFiles(frames) ==
    /\ filenames = [k \in 1..Len(frames) |-> k]
    /\ isstr = FALSE
    /\ ext = 0
    /\ hdus = [f \in 1..Len(frames) |-> <<HDU(2, frames[f])>>]

\* The arguments of medabsdev in a run of an accumulator, which does not
\* call it.
NoArray ==
    /\ data = [shape |-> <<0>>, val |-> <<>>]
    /\ axis = AxisNone
    /\ keepdims = FALSE
    /\ nan = TRUE

\* The local names before the body has run.
InitLocals ==
    /\ callee = func
    /\ pc = "call"
    /\ extlist = <<>>
    /\ totframes = 0
    /\ frame_shape = 0
    /\ nframes = <<>>
    /\ chunkweights = <<>>
    /\ loopframes = 0
    /\ i = 0
    /\ j = 0
    /\ file_idx_end = 0
    /\ chunk_frames = <<>>
    /\ med_vals = <<>>
    /\ avgframe = <<>>
    /\ cn = Unbound
    /\ loaded = <<>>
    /\ feedback = <<>>
    /\ ret = NoReturn
    /\ err = ""

\* A call of calc_mean_frame or lm_mean_frame.
Init ==
    /\ func \in {"calc_mean_frame", "lm_mean_frame"}
    /\ \E frames \in SeqsUpTo(MeanFrames, MaxFrames) : FramesInFiles(frames)
    /\ maxframes \in Ceilings
    /\ chopfreq = None /\ nodfreq = None /\ framerate = 1
    /\ fitsdict = FALSE
    /\ dark_array = <<>> /\ bpmask_array = <<>>
    /\ NoArray
    /\ logfile = None
    /\ InitLocals

\* Frames of one pixel that may hold an infinity as well as a NaN.
InfFrames == [1..1 -> {NaN, R(1), R(2), <<1, 0>>, <<-1, 0>>}]

\* A call of calc_mean_frame or lm_mean_frame on such frames.
InitInf ==
    /\ func \in {"calc_mean_frame", "lm_mean_frame"}
    /\ \E frames \in SeqsUpTo(InfFrames, MaxFrames) : FramesInFiles(frames)
    /\ maxframes \in Ceilings
    /\ chopfreq = None /\ nodfreq = None /\ framerate = 1
    /\ fitsdict = FALSE
    /\ dark_array = <<>> /\ bpmask_array = <<>>
    /\ NoArray
    /\ logfile = None
    /\ InitLocals

\* A call of calc_chopnod_frame.
InitChopNod ==
    /\ func = "calc_chopnod_frame"
    /\ \E frames \in SeqsUpTo(ChopNodFrames, MaxFrames) : FramesInFiles(frames)
    /\ maxframes \in Ceilings
    /\ framerate \in 1..MaxRate
    /\ chopfreq \in {None, 1, 2}
    /\ nodfreq \in {None, 1}
    /\ fitsdict \in BOOLEAN
    /\ dark_array = <<>> /\ bpmask_array = <<>>
    /\ NoArray
    /\ logfile = None
    /\ InitLocals

\* The frame repeated in the runs on identical frames.
SameFrames == {<<R(1), R(2), R(4)>>, <<R(3), R(0), R(-1)>>}

\* A call of calc_chopnod_frame on a sequence of up to MaxSeq identical
\* frames without NaN.
InitSame ==
    /\ func = "calc_chopnod_frame"
    /\ \E n \in 1..MaxSeq : \E f \in SameFrames :
          FramesInFiles([k \in 1..n |-> f])
    /\ maxframes \in {None} \cup (1..(MaxSeq + 1))
    /\ framerate \in 1..MaxRate
    /\ chopfreq \in {None, 1, 2}
    /\ nodfreq \in {None, 1}
    /\ fitsdict \in BOOLEAN
    /\ dark_array = <<>> /\ bpmask_array = <<>>
    /\ NoArray
    /\ logfile = None
    /\ InitLocals

\* A call of create_flatfield.
InitFlat ==
    /\ func = "create_flatfield"
    /\ \E frames \in SeqsUpTo(FlatFrames, MaxFrames) : FramesInFiles(frames)
    /\ maxframes \in Ceilings
    /\ chopfreq = None /\ nodfreq = None /\ framerate = 1
    /\ fitsdict = FALSE
    /\ dark_array \in DarkFrames
    /\ bpmask_array \in Masks
    /\ NoArray
    /\ logfile = None
    /\ InitLocals

\* Frame k of the runs with fixed contents.
SeqFrame(k) == <<R(k), R(k + 1), R(k + 3)>>

\* A call of any of the four functions on a sequence of up to MaxSeq
\* frames, under every ceiling up to one more than that.
InitSeq ==
    /\ func \in {"calc_mean_frame", "lm_mean_frame", "calc_chopnod_frame",
                 "create_flatfield"}
    /\ \E n \in 1..MaxSeq : FramesInFiles([k \in 1..n |-> SeqFrame(k)])
    /\ logfile \in {None, 1}
    /\ maxframes \in {None} \cup (1..(MaxSeq + 1))
    /\ IF func = "calc_chopnod_frame"
       THEN /\ framerate \in 1..MaxRate
            /\ chopfreq \in {None, 1, 2}
            /\ nodfreq \in {None, 1}
            /\ fitsdict \in BOOLEAN
       ELSE /\ chopfreq = None /\ nodfreq = None /\ framerate = 1
            /\ fitsdict = FALSE
    /\ IF func = "create_flatfield"
       THEN /\ dark_array = <<R(1), R(1), R(2)>>
            /\ bpmask_array \in {<<>>, <<0, 0, 0>>, <<1, 0, 0>>}
       ELSE dark_array = <<>> /\ bpmask_array = <<>>
    /\ NoArray
    /\ InitLocals

\* The files of the runs that draw the file names.  File 1 is a
\* multi-extension file: a primary HDU without data, a 2-D frame, a 3-D
\* cube and a second 2-D frame.  Files 2, 3 and 4 hold one 2-D frame each,
\* of three pixels, of one pixel and of two pixels.  File 5 holds a primary
\* HDU without data and nothing else.  No file has the name 6.
FilesOnDisk ==
    [f \in 1..5 |->
        CASE f = 1 -> <<HDU(0, NoData),
                        HDU(2, <<R(1), R(2), R(3)>>),
                        HDU(3, <<R(1), R(1), R(1), R(1), R(1), R(1)>>),
                        HDU(2, <<R(2), R(2), R(5)>>)>>
          [] f = 2 -> <<HDU(2, <<R(3), R(1), R(4)>>)>>
          [] f = 3 -> <<HDU(2, <<R(7)>>)>>
          [] f = 4 -> <<HDU(2, <<R(1), R(5)>>)>>
          [] f = 5 -> <<HDU(0, NoData)>>]

\* The file names drawn, the missing file among them.
FileNames == 1..6

\* The file names drawn for create_flatfield: the frames they hold have the
\* shape of the dark.
FlatFileNames == {1, 2, 5, 6}

\* Lists of up to n elements of S, the empty list included.
ListsUpTo(S, n) == UNION {[1..k -> S] : k \in 0..n}

\* A call of any of the four functions with a list of up to MaxFiles file
\* names, or with one file name as a string.
InitFiles ==
    /\ func \in {"calc_mean_frame", "lm_mean_frame", "calc_chopnod_frame",
                 "create_flatfield"}
    /\ hdus = FilesOnDisk
    /\ filenames \in ListsUpTo(IF func = "create_flatfield"
                               THEN FlatFileNames ELSE FileNames, MaxFiles)
    /\ isstr \in IF Len(filenames) = 1 /\ func # "create_flatfield"
                 THEN BOOLEAN ELSE {FALSE}
    /\ ext \in {0, 1}
    /\ maxframes \in {None, 1, 2}
    /\ IF func = "calc_chopnod_frame"
       THEN /\ framerate = 2
            /\ chopfreq \in {None, 1}
            /\ nodfreq \in {None, 1}
            /\ fitsdict \in BOOLEAN
       ELSE /\ chopfreq = None /\ nodfreq = None /\ framerate = 1
            /\ fitsdict = FALSE
    /\ IF func = "create_flatfield"
       THEN dark_array = <<R(0), R(0), R(1)>> /\ bpmask_array = <<>>
       ELSE dark_array = <<>> /\ bpmask_array = <<>>
    /\ NoArray
    /\ logfile = None
    /\ InitLocals

\* The values of the 1-D arrays drawn for medabsdev.
MadValues == {R(1), R(100), NaN}

\* The 1-D array of the values of s.
Array1D(s) ==
    [shape |-> <<Len(s)>>, val |-> [idx \in Indices(<<Len(s)>>) |-> s[idx[1]]]]

\* Every 1-D array of up to MaxLen of these values, and the arrays of up to
\* MaxLen times 5.
Arrays1D ==
    {Array1D(s) : s \in SeqsUpTo(MadValues, MaxLen)}
    \cup {Array1D([k \in 1..n |-> R(5)]) : n \in 1..MaxLen}

\* The shapes of the arrays of two and three dimensions.
ShapesND ==
    {<<a, b>> : a \in 1..MaxSide, b \in 1..MaxSide}
    \cup {<<a, b, c>> : a \in 1..(MaxSide - 1), b \in 1..(MaxSide - 1),
                        c \in 1..(MaxSide - 1)}

\* The contents of the arrays of two and three dimensions: all 5; all 1 but
\* the last element, which is 100; the elements numbered in row-major
\* order; and a NaN followed by alternating 1 and 0.
Patterns == {"constant", "spike", "ramp", "nanfirst"}

PatternValue(pattern, idx, shape) ==
    CASE pattern = "constant" -> R(5)
      [] pattern = "spike"    -> IF idx = shape THEN R(100) ELSE R(1)
      [] pattern = "ramp"     -> R(Rank(idx, shape))
      [] pattern = "nanfirst" -> IF Rank(idx, shape) = 0 THEN NaN
                                 ELSE R(Rank(idx, shape) % 2)

ArraysND ==
    {[shape |-> shape,
      val   |-> [idx \in Indices(shape) |-> PatternValue(pattern, idx, shape)]] :
        shape \in ShapesND, pattern \in Patterns}

\* The axis arguments for an array of ndim dimensions: None, each axis as
\* an int, and each ascending tuple of axes.
AxisArgs(ndim) ==
    {AxisNone}
    \cup {AxisInt(a) : a \in 0..(ndim - 1)}
    \cup UNION {{AxisTuple(t) :
                    t \in {u \in [1..n -> 0..(ndim - 1)] :
                              \A k \in 1..(n - 1) : u[k] < u[k + 1]}} :
                n \in 1..ndim}

\* A call of medabsdev.
InitMad ==
    /\ func = "medabsdev"
    /\ data \in Arrays1D \cup ArraysND
    /\ axis \in AxisArgs(Len(data.shape))
    /\ keepdims \in BOOLEAN
    /\ nan \in BOOLEAN
    /\ filenames = <<>> /\ isstr = FALSE /\ ext = 0 /\ hdus = <<>>
    /\ maxframes = None
    /\ chopfreq = None /\ nodfreq = None /\ framerate = 1
    /\ fitsdict = FALSE
    /\ dark_array = <<>> /\ bpmask_array = <<>>
    /\ logfile = None
    /\ InitLocals

Next ==
    \/ Resolve
    \/ Partition
    \/ StartChunk
    \/ LoadFrame
    \/ ReduceChunk
    \/ Finish

NextChopNod ==
    \/ Next
    \/ Fallback
    \/ DeriveSigns
    \/ Return

Spec == Init /\ [][Next]_vars

SpecChopNod == InitChopNod /\ [][NextChopNod]_vars

SpecFlat == InitFlat /\ [][Next]_vars

SpecSeq == InitSeq /\ [][NextChopNod]_vars

SpecFiles == InitFiles /\ [][NextChopNod]_vars

SpecInf == InitInf /\ [][Next]_vars

SpecSame == InitSame /\ [][NextChopNod]_vars

NextMad == CallMedabsdev

SpecMad == InitMad /\ [][NextMad]_vars

----------------------------------------------------------------------------
(* Properties.                                                             *)

MeanFuncs == {"calc_mean_frame", "lm_mean_frame"}

\* The chunk list has been built.
Partitioned == pc \in {"chunk", "load", "return", "done"} \/ nframes # <<>>

\* The call has ended, by a return or by an exception.
Ended == pc \in {"done", "error"}

\* No pixel of the frame is NaN.
NoNaN(frame) == \A p \in 1..Len(frame) : ~IsNaN(frame[p])

\* C1: whatever the ceiling, calc_mean_frame returns the elementwise
\* NaN-ignoring mean taken over all frames of the sequence at once (and so
\* the same frame under any two ceilings).  Stated for the returned frames
\* without a NaN pixel, where no chunk was NaN throughout at any pixel.
MeanFrameIsNanMeanOfAll ==
    (func = "calc_mean_frame" /\ pc = "done" /\ NoNaN(ret.frame))
        => ret.frame = NanMeanFrames(filedata, frame_shape)

\* C2: for N frames and an integer ceiling C >= 1 the chunk list has
\* ceil(N/C) chunks, each of C frames except the last, which has N mod C
\* (C when C divides N); the sizes sum to N, each weight is size/N and the
\* weights sum to 1.
ChunkListShape ==
    (Partitioned /\ Ceiling # None /\ Ceiling >= 1) =>
        LET n == Len(nframes)
        IN  /\ n >= 1
            /\ n * Ceiling >= totframes
            /\ (n - 1) * Ceiling < totframes
            /\ \A k \in 1..(n - 1) : nframes[k] = Ceiling
            /\ nframes[n] = IF totframes % Ceiling = 0
                            THEN Ceiling ELSE totframes % Ceiling
            /\ IntSum(nframes) = totframes
            /\ Len(chunkweights) = n
            /\ \A k \in 1..n : Mul(chunkweights[k], R(totframes)) = R(nframes[k])
            /\ SumSeq(chunkweights) = R(1)

\* C2 witness: a chunk list of several chunks whose last chunk is smaller.
ChunkListWithRemainder ==
    /\ Partitioned /\ Ceiling # None
    /\ Len(nframes) >= 3
    /\ nframes[Len(nframes)] < Ceiling

\* C3: with maxframes = None calc_mean_frame and lm_mean_frame process the
\* sequence as one chunk of totframes frames with weight 1 and return the
\* mean frame.
NoCeilingSingleChunk ==
    (func \in MeanFuncs /\ maxframes = None) =>
        /\ pc # "error"
        /\ Partitioned => nframes = <<totframes>> /\ chunkweights = <<R(1)>>
        /\ pc = "done" => ret.frame = NanMeanFrames(filedata, frame_shape)

\* C4: with an integer ceiling the chunk buffer never holds more frames
\* than the ceiling, and never more than floor(ceiling/2) in create_flatfield
\* with a bad-pixel mask.
BufferWithinCeiling ==
    maxframes # None =>
        Len(chunk_frames) <=
            (IF func = "create_flatfield" /\ Masked
             THEN maxframes \div 2 ELSE maxframes)

\* C4 witness: a masked create_flatfield whose buffer holds floor(ceiling/2)
\* frames while frames of the sequence are still to be loaded.
MaskedBufferFull ==
    /\ func = "create_flatfield" /\ Masked
    /\ maxframes # None /\ maxframes >= 4
    /\ pc = "load"
    /\ Len(chunk_frames) = maxframes \div 2
    /\ i + 1 < Len(nframes)

\* C5: for every configured ceiling >= 1 create_flatfield partitions with
\* floor(ceiling/2) under a mask and with the full ceiling without one, and
\* the partition covers all flat frames.
FlatPartitionCoversAll ==
    (func = "create_flatfield" /\ maxframes # None /\ maxframes >= 1
     /\ pc \notin {"call", "partition"}) =>
        /\ err = ""
        /\ loopframes = (IF Masked THEN maxframes \div 2 ELSE maxframes)
        /\ \A k \in 1..(Len(nframes) - 1) : nframes[k] = loopframes
        /\ IntSum(nframes) = totframes

\* C6: with a mask that flags no pixel create_flatfield produces the
\* flatfield it produces with no mask, for the same flats, dark and ceiling.
AllFalseMaskIsNoMask ==
    (func = "create_flatfield" /\ Masked
     /\ (\A p \in 1..Len(bpmask_array) : bpmask_array[p] = 0)
     /\ Ended) =>
        /\ pc = "done"
        /\ ret.frame = FlatfieldOf(filedata, dark_array, <<>>, maxframes)

\* The dark-subtracted frame with every flagged pixel left out.
WithoutFlagged(frame, bpmask) ==
    [p \in 1..Len(frame) |-> IF bpmask[p] # 0 THEN NaN ELSE frame[p]]

\* C7: under a mask, each frame's normalising median is taken over exactly
\* its unflagged non-NaN dark-subtracted pixels, whatever value a flagged
\* pixel has, and the accumulated chunk still holds the flagged pixels
\* (divided by that median).
MedianLeavesOutFlagged ==
    (func = "create_flatfield" /\ Masked /\ pc = "chunk" /\ i >= 1) =>
        \A k \in 1..Len(med_vals) :
            LET sub == DarkSubtract(<<filedata[(i - 1) * loopframes + k]>>,
                                    dark_array)[1]
                med == NanMedian(WithoutFlagged(sub, bpmask_array))
            IN  /\ med_vals[k] = med
                /\ \A p \in 1..Len(sub) : chunk_frames[k][p] = Div(sub[p], med)

\* The summary calc_chopnod_frame is to return when no frequency is given.
NoSummary == [none |-> TRUE]

\* C8: without frequencies calc_chopnod_frame returns the array
\* calc_mean_frame returns for the same sequence and ceiling, together with
\* a None summary when the summary is requested.
FallbackReturnsMeanFrame ==
    (func = "calc_chopnod_frame" /\ BothNone /\ Ended) =>
        /\ pc = "done"
        /\ ret = IF fitsdict
                 THEN [kind   |-> "tuple",
                       frame  |-> MeanFrameOf(filedata, maxframes),
                       header |-> NoSummary]
                 ELSE [kind  |-> "frame",
                       frame |-> MeanFrameOf(filedata, maxframes)]

\* C9: the derived sign pattern has exactly total_frames entries, each +1
\* or -1, also when total_frames is no multiple of the cycle lengths, and
\* no error is raised.  Stated for cycles of an even number of frames.
SignPatternCoversSequence ==
    (cn # Unbound /\ cn.chop_cycle_frames % 2 = 0
                  /\ cn.nod_cycle_frames % 2 = 0) =>
        /\ err = ""
        /\ Len(cn.framesigns) = totframes
        /\ \A k \in 1..Len(cn.framesigns) : cn.framesigns[k] \in {1, -1}

\* C10: calc_chopnod_frame returns the mean over the whole sequence of
\* sign[j] * frame[j], the single-pass signed mean, under any ceiling.
\* Stated for the returned frames without a NaN pixel.
ChopNodIsSinglePassSignedMean ==
    (func = "calc_chopnod_frame" /\ cn # Unbound /\ pc = "done"
     /\ NoNaN(ret.frame)) =>
        ret.frame = NanMeanFrames(Signed(filedata, cn.framesigns), frame_shape)

\* C11: called with chopfreq = None and a nodfreq value, calc_chopnod_frame
\* completes and returns the nod-only difference frame: every chop sign is
\* +1, so the sign of each frame is its nod sign.
NodOnlyCompletes ==
    (func = "calc_chopnod_frame" /\ chopfreq = None /\ nodfreq # None
     /\ Ended) =>
        /\ pc = "done"
        /\ \A k \in 1..Len(cn.chopsigns) : cn.chopsigns[k] = 1
        /\ cn.framesigns = cn.nodsigns

\* Frame k (counted from 1) of the resolved sequence can be loaded.
Loadable(k) == GetDataError(filenames[k], extlist[k]) = ""

\* C12: when a frame of the sequence fails to load, in whichever chunk, the
\* call of calc_mean_frame, lm_mean_frame, calc_chopnod_frame or
\* create_flatfield ends in an error: it returns no frame and writes no
\* output file, whatever was accumulated before.
LoadFailureIsFatal ==
    (totframes > 0 /\ \E k \in 1..totframes : ~Loadable(k)) =>
        /\ pc # "done"
        /\ ret = NoReturn

\* C12 witness: the load of a frame failed after a chunk had been added to
\* the accumulator.
LoadFailedAfterChunks ==
    /\ pc = "error"
    /\ i >= 1
    /\ avgframe # Zeros(frame_shape)
    /\ j < totframes /\ ~Loadable(j + 1)
    /\ loaded # <<>> /\ loaded[Len(loaded)] = j
    /\ err = GetDataError(filenames[j + 1], extlist[j + 1])

\* C13: when a frame of the sequence has a shape other than the first
\* frame's, the accumulation ends in an error: no frame is returned that
\* was computed from frames of differing shapes.  Stated for the sequences
\* whose frames can all be loaded.
MixedShapesAreFatal ==
    (totframes > 0 /\ Ended
     /\ (\A k \in 1..totframes : Loadable(k))
     /\ (\E k \in 1..totframes :
            Len(GetData(filenames[k], extlist[k])) # frame_shape)) =>
        pc = "error"

\* Frame resolution finds no frame: the list of file names is empty, or one
\* file is given and none of its HDUs has NAXIS = 2.
NoFramesFound ==
    \/ filenames = <<>>
    \/ /\ isstr \/ Len(filenames) = 1
       /\ OnDisk(filenames[1])
       /\ \A e \in 1..Len(hdus[filenames[1]]) : hdus[filenames[1]][e].naxis # 2

\* C14: when frame resolution finds no frames, calc_mean_frame and
\* calc_chopnod_frame fail at once: the call goes from its entry to an
\* error, no position of the sequence is ever loaded and nothing is
\* returned.
NoFramesFailsAtOnce ==
    (func \in {"calc_mean_frame", "calc_chopnod_frame"} /\ NoFramesFound) =>
        /\ pc \in {"call", "error"}
        /\ loaded = <<>>
        /\ chunk_frames = <<>>
        /\ ret = NoReturn

\* C14 witness: calc_chopnod_frame has failed on one file that has no 2-D
\* extension.
NoFramesFailed ==
    /\ func = "calc_chopnod_frame"
    /\ filenames # <<>>
    /\ NoFramesFound
    /\ pc = "error"
    /\ err = "IndexError"

\* The functions that resolve their frames from the filenames argument.
ResolvingFuncs == {"calc_mean_frame", "lm_mean_frame", "calc_chopnod_frame"}

\* s is strictly ascending.
Ascending(s) == \A k \in 1..(Len(s) - 1) : s[k] < s[k + 1]

\* C15: frame resolution in calc_mean_frame, lm_mean_frame and
\* calc_chopnod_frame.  A list of two or more files yields the locator
\* (file, ext) of each file in list order, so the sequence is as long as the
\* list; a single file name yields one locator per extension of that file
\* whose data is 2-dimensional, in ascending extension order, so the
\* sequence is as long as the number of such extensions.
ResolutionYieldsLocators ==
    [][(pc = "call" /\ pc' \notin {"call", "error"}
        /\ callee \in ResolvingFuncs) =>
          IF ~isstr /\ Len(filenames) >= 2
          THEN /\ filenames' = filenames
               /\ extlist' = [k \in 1..Len(filenames) |-> ext]
               /\ totframes' = Len(filenames)
          ELSE LET hdulist == hdus[filenames[1]]
                   twod    == {e \in 0..(Len(hdulist) - 1) :
                                  hdulist[e + 1].naxis = 2}
               IN  /\ Ascending(extlist')
                   /\ {extlist'[k] : k \in 1..Len(extlist')} = twod
                   /\ filenames' = [k \in 1..Len(extlist') |-> filenames[1]]
                   /\ totframes' = Cardinality(twod)
                   /\ totframes' = Len(extlist')]_vars

\* C15 witness: one file whose extensions 1 and 3 hold 2-D data and whose
\* extensions 0 and 2 do not has been resolved.
MultiExtensionResolved ==
    /\ callee \in ResolvingFuncs
    /\ isstr
    /\ pc # "call"
    /\ extlist = <<1, 3>>
    /\ filenames = <<1, 1>>
    /\ totframes = 2

\* The 1-D array of the integers of s.
Vector(s) == Array1D([k \in 1..Len(s) |-> R(s[k])])

\* What medabsdev is to give for the values g reduced into one position:
\* the median of |g - median(g)| over 0.6744897501960817; where that is 0,
\* the mean of |g - median(g)| over 0.8; and 0.0 where that is 0 too.
DeviationOf(g) ==
    LET m      == medfunc(g)
        dev    == [k \in 1..Len(g) |-> AbsR(Sub(g[k], m))]
        median == medfunc(dev)
        mean   == meanfunc(dev)
    IN  IF median # R(0) THEN Over(median, "0.6744897501960817")
        ELSE IF mean # R(0) THEN Over(mean, "0.8")
        ELSE Over(R(0), "1")

\* C16: at every position medabsdev returns
\* median(|data - median(data)|)/0.6744897501960817, mean(|data -
\* median(data)|)/0.8 where the former is below machine epsilon, and exactly
\* 0.0 where that is below epsilon too; [5,5,5,5,5] gives 0.0 and
\* [1,1,1,1,100] the mean-based value (99/5)/0.8.  The positions are taken
\* in row-major order.
MedabsdevFallbackChain ==
    (func = "medabsdev" /\ pc = "done") =>
        LET axes == AxesOf(axis, Len(data.shape))
            kept == KeptShape(data.shape, axes)
            out  == Flat(ret.array)
        IN  /\ Len(out) = Size(kept)
            /\ \A idx \in Indices(kept) :
                  out[Rank(idx, kept) + 1]
                      = DeviationOf(GroupValues(data, axes, idx))
            /\ data = Vector(<<5, 5, 5, 5, 5>>) => out = <<Over(R(0), "1")>>
            /\ data = Vector(<<1, 1, 1, 1, 100>>)
                  => out = <<Over(<<99, 5>>, "0.8")>>

\* C16 witness: medabsdev has returned the mean-based value for
\* [1,1,1,1,100].
FallbackValueReturned ==
    /\ func = "medabsdev" /\ pc = "done"
    /\ data = Vector(<<1, 1, 1, 1, 100>>)
    /\ Flat(ret.array) = <<Over(<<99, 5>>, "0.8")>>

\* The shape without the axes reduced.
ReducedShape(shape, axes) ==
    LET Kept(k) == (k - 1) \notin axes
        keep    == SelectSeq([k \in 1..Len(shape) |-> k], Kept)
    IN  [n \in 1..Len(keep) |-> shape[keep[n]]]

\* C17: for every input shape and axis argument, medabsdev with
\* keepdims=True returns an array of as many dimensions as the input in
\* which each reduced axis has size 1 and each other axis its size, and with
\* keepdims=False an array without the reduced axes.
MedabsdevResultShape ==
    (func = "medabsdev" /\ pc = "done") =>
        LET axes == AxesOf(axis, Len(data.shape))
        IN  ret.array.shape = IF keepdims
                              THEN KeptShape(data.shape, axes)
                              ELSE ReducedShape(data.shape, axes)

\* The distance between the first positions of two successive chunks: the
\* ceiling the run partitions with (no second chunk without a ceiling).
ChunkStep == IF Ceiling = None THEN 0 ELSE Ceiling

\* C18: in every accumulator the chunks are processed in ascending order
\* and chunk i loads the positions i*ceiling .. i*ceiling + size_i - 1 in
\* ascending order: the positions loaded so far are 0, 1, 2, ... without a
\* gap or a repeat, none is outside 0..N-1, the buffer of chunk i holds the
\* frames from position i*ceiling on, and a complete run has loaded every
\* position exactly once.
ChunksLoadInOrder ==
    /\ \A k \in 1..Len(loaded) : loaded[k] = k - 1
    /\ Len(loaded) <= totframes
    /\ pc = "load" =>
          /\ file_idx_end = i * ChunkStep + nframes[i + 1]
          /\ j = i * ChunkStep + Len(chunk_frames)
          /\ j <= file_idx_end
          /\ Len(loaded) = j
    /\ pc = "chunk" => Len(loaded) = IntSum(SubSeq(nframes, 1, i))
    /\ pc = "done" => Len(loaded) = totframes

\* C18 witness: a run of three or more chunks, the last one smaller, has
\* completed and has loaded every position once.
AllPositionsLoaded ==
    /\ pc = "done"
    /\ Len(nframes) >= 3
    /\ nframes[Len(nframes)] < nframes[1]
    /\ nframes[1] >= 2
    /\ loaded = [k \in 1..totframes |-> k - 1]

\* Flat frame pos (counted from 1) after the claimed steps: the dark is
\* subtracted first, the median is the NaN-ignoring median of the
\* dark-subtracted pixels (of those the mask leaves in, under a mask), and
\* the dark-subtracted frame is divided by it.
DarkSubtracted(pos) ==
    [p \in 1..frame_shape |-> Sub(filedata[pos][p], dark_array[p])]

MedianOfDarkSubtracted(pos) ==
    NanMedian(IF Masked THEN MaskFilled(DarkSubtracted(pos), bpmask_array)
              ELSE DarkSubtracted(pos))

NormalizedFlat(pos) ==
    [p \in 1..frame_shape |->
        Div(DarkSubtracted(pos)[p], MedianOfDarkSubtracted(pos))]

\* The normalised frames of chunk c (counted from 1).
NormalizedChunk(c) ==
    [k \in 1..nframes[c] |-> NormalizedFlat((c - 1) * loopframes + k)]

\* C19: in create_flatfield each loaded frame has the dark subtracted, then
\* its own scalar NaN-ignoring median computed from the dark-subtracted
\* values, then is divided by that median, and only then enters the chunk's
\* NaN-ignoring mean, which is added to the flatfield with weight
\* chunk_size/N.
FlatStepsInOrder ==
    (func = "create_flatfield" /\ pc = "chunk" /\ i >= 1) =>
        /\ Len(med_vals) = nframes[i]
        /\ \A k \in 1..nframes[i] :
              med_vals[k] = MedianOfDarkSubtracted((i - 1) * loopframes + k)
        /\ chunk_frames = NormalizedChunk(i)
        /\ avgframe =
              SumFrames([c \in 1..i |->
                            Scale(NanMeanFrames(NormalizedChunk(c), frame_shape),
                                  Norm(nframes[c], totframes))],
                        frame_shape)

\* C19 witness: the second chunk of a create_flatfield run with a dark that
\* is not zero has been added to the flatfield.
SecondFlatChunkAdded ==
    /\ func = "create_flatfield"
    /\ pc = "chunk" /\ i = 2
    /\ dark_array # Zeros(frame_shape)
    /\ nframes[1] = 2
    /\ NoNaN(avgframe)
    /\ avgframe # Zeros(frame_shape)

\* A sign template of the claimed form for a cycle of the given length: as
\* long as the cycle, +1 over its first pos entries and -1 over the rest.
IsCycleTemplate(t, cycle, pos) ==
    /\ Len(t) = cycle
    /\ \A k \in 1..Len(t) : t[k] = (IF k <= pos THEN 1 ELSE -1)

\* C20: the chop template has exactly chop_cycle_frames entries, for odd
\* chop_cycle_frames too, +1 over the first chop position and -1 over the
\* second; a sequence shorter than one cycle gets the first total_frames
\* entries of the template as its chop signs; the nod template is built the
\* same way from nod_pos_frames and nod_cycle_frames.
SignTemplatesSpanTheirCycle ==
    (func = "calc_chopnod_frame" /\ cn.bound) =>
        /\ IsCycleTemplate(SingleCycleSigns(cn.chop_pos_frames),
                           cn.chop_cycle_frames, cn.chop_pos_frames)
        /\ IsCycleTemplate(SingleCycleSigns(cn.nod_pos_frames),
                           cn.nod_cycle_frames, cn.nod_pos_frames)
        /\ (totframes < cn.chop_cycle_frames =>
               cn.chopsigns = Prefix(SingleCycleSigns(cn.chop_pos_frames),
                                     totframes))
        /\ (totframes < cn.nod_cycle_frames =>
               cn.nodsigns = Prefix(SingleCycleSigns(cn.nod_pos_frames),
                                    totframes))

\* The sign of one modulation at sequence position pos (counted from 0), as
\* claimed: +1 during the first pos_frames frames of each cycle.
ModulationSign(pos, cycle_frames, pos_frames) ==
    IF pos % cycle_frames < pos_frames THEN 1 ELSE -1

\* Both frequencies given, both cycles of an even number of frames, and
\* the sequence a whole number of chop cycles and of nod cycles.
WholeEvenCycles ==
    /\ func = "calc_chopnod_frame" /\ cn.bound
    /\ chopfreq # None /\ nodfreq # None
    /\ cn.chop_cycle_frames % 2 = 0 /\ cn.nod_cycle_frames % 2 = 0
    /\ totframes % cn.chop_cycle_frames = 0
    /\ totframes % cn.nod_cycle_frames = 0

\* C21: with both frequencies given, even cycle lengths and total_frames a
\* multiple of both, the sign applied to frame j is chop(j) * nod(j), each
\* factor +1 while j mod cycle is below the frames per position and -1
\* otherwise: the derived signs are these, and every frame in the buffer
\* is the frame on disk times that sign.
SignIsChopTimesNod ==
    WholeEvenCycles =>
        /\ Len(cn.framesigns) = totframes
        /\ \A pos \in 0..(totframes - 1) :
              cn.framesigns[pos + 1] =
                  ModulationSign(pos, cn.chop_cycle_frames, cn.chop_pos_frames)
                * ModulationSign(pos, cn.nod_cycle_frames, cn.nod_pos_frames)
        /\ (pc = "load" =>
               \A k \in 1..Len(chunk_frames) :
                  LET pos == j - Len(chunk_frames) + k - 1
                  IN  chunk_frames[k] =
                         Scale(filedata[pos + 1],
                               R(ModulationSign(pos, cn.chop_cycle_frames,
                                                cn.chop_pos_frames)
                                 * ModulationSign(pos, cn.nod_cycle_frames,
                                                  cn.nod_pos_frames))))

\* C21 witness: four frames, chop cycles of two frames inside one nod cycle
\* of four, all four frames loaded with the signs +1, -1, -1, +1.
TwoChopCyclesInOneNodCycle ==
    /\ WholeEvenCycles
    /\ cn.chop_cycle_frames = 2 /\ cn.nod_cycle_frames = 4
    /\ totframes = 4
    /\ cn.framesigns = <<1, -1, -1, 1>>
    /\ pc = "load" /\ Len(chunk_frames) = 4

\* C22: with nodfreq = None and chopfreq given, nod_pos_frames is
\* total_frames and nod_cycle_frames twice that, every nod sign is +1 and
\* the final signs are derived and equal the chop signs; for a chop cycle of
\* 2p frames and 4p frames in all they are p times +1 and p times -1,
\* twice over.
NodNoneSignsAreChopSigns ==
    (func = "calc_chopnod_frame" /\ cn.bound
     /\ chopfreq # None /\ nodfreq = None) =>
        /\ cn.nod_pos_frames = totframes
        /\ cn.nod_cycle_frames = 2 * totframes
        /\ cn.nodsigns = Ones(totframes)
        /\ err = ""
        /\ cn.framesigns = cn.chopsigns
        /\ \A p \in 1..totframes :
              (cn.chop_cycle_frames = 2 * p /\ totframes = 4 * p) =>
                  cn.framesigns = Ones(p) \o MinusOnes(p)
                                  \o Ones(p) \o MinusOnes(p)

ChunkPositions(c) == {(c - 1) * ChunkStep + k : k \in 1..nframes[c]}

\* Every frame of chunk c is NaN at pixel p.
AllNaNAt(c, p) == \A pos \in ChunkPositions(c) : IsNaN(filedata[pos][p])

\* No frame of the sequence holds an infinity at pixel p.
FiniteAt(p) == \A pos \in 1..totframes : filedata[pos][p][2] # 0 \/
                                         IsNaN(filedata[pos][p])

\* A chunk whose frames are all NaN at a pixel has a NaN mean there, and
\* the running result and the returned frame are NaN there.
AllNaNChunkPropagates ==
    /\ (pc = "chunk" /\ i >= 1) =>
          \A p \in 1..frame_shape :
             AllNaNAt(i, p) => /\ IsNaN(MeanChunk(chunk_frames)[p])
                               /\ IsNaN(avgframe[p])
    /\ pc = "done" =>
          \A p \in 1..frame_shape :
             (\E c \in 1..Len(nframes) : AllNaNAt(c, p)) => IsNaN(ret.frame[p])

\* C24 as stated: a chunk all NaN at a pixel makes the returned frame NaN
\* there, whatever the other chunks hold, and a pixel with a non-NaN value
\* in every chunk is never NaN in the returned frame.
NaNOnlyFromAllNaNChunk ==
    (func \in MeanFuncs /\ err = "") =>
        /\ AllNaNChunkPropagates
        /\ pc = "done" =>
              \A p \in 1..frame_shape :
                 (\A c \in 1..Len(nframes) : ~AllNaNAt(c, p)) =>
                     ~IsNaN(ret.frame[p])

\* C24 amended: the same, the second half for the pixels at which no frame
\* holds an infinity.
NaNOnlyFromAllNaNChunkOfFinite ==
    (func \in MeanFuncs /\ err = "") =>
        /\ AllNaNChunkPropagates
        /\ pc = "done" =>
              \A p \in 1..frame_shape :
                 (FiniteAt(p) /\ \A c \in 1..Len(nframes) : ~AllNaNAt(c, p)) =>
                     ~IsNaN(ret.frame[p])

\* C24 witness: a frame is returned from two chunks, the first all NaN at
\* the pixel and the second with a finite value there.
NaNChunkBesideValidChunk ==
    /\ func \in MeanFuncs
    /\ pc = "done"
    /\ Len(nframes) = 2 /\ nframes[1] = 2
    /\ AllNaNAt(1, 1)
    /\ filedata[3][1] = R(2)
    /\ IsNaN(ret.frame[1])

\* How many times the token was emitted.
Emitted(text) ==
    Cardinality({k \in 1..Len(feedback) : feedback[k].text = text})

\* The frame a run returns as a function of the frames, the ceiling and the
\* signs alone.
FrameOfInputs ==
    IF func = "create_flatfield"
    THEN FlatfieldOf(filedata, dark_array, bpmask_array, maxframes)
    ELSE IF func = "calc_chopnod_frame" /\ ~BothNone
    THEN Accumulate(Chunks(Signed(filedata, DerivedSigns.framesigns),
                           maxframes),
                    totframes, frame_shape)
    ELSE MeanFrameOf(filedata, maxframes)

\* C25: while an accumulation runs without error one '.' has been emitted
\* per chunk begun, the tick of a chunk before any of its frames is loaded;
\* 'Done.' is emitted once, after the last chunk is accumulated, and is the
\* last token; the feedback goes to the log file when one is given and to
\* the terminal otherwise, and the returned frame does not depend on which.
OneTickPerChunk ==
    (err = "" /\ func # "medabsdev") =>
        /\ \A k \in 1..Len(feedback) :
              feedback[k].to = IF logfile # None THEN "logfile" ELSE "terminal"
        /\ pc = "load" => Emitted(".") = i + 1
        /\ pc = "chunk" => Emitted(".") = i
        /\ pc \in {"load", "chunk"} =>
              /\ Len(loaded) <= IntSum(SubSeq(nframes, 1, Emitted(".")))
              /\ Emitted("Done.") = 0
        /\ pc \in {"call", "signs", "partition"} =>
              Emitted(".") = 0 /\ Emitted("Done.") = 0
        /\ pc \in {"return", "done"} =>
              /\ Emitted(".") = Len(nframes)
              /\ Emitted("Done.") = 1
              /\ feedback[Len(feedback)].text = "Done."
        /\ pc = "done" => ret.frame = FrameOfInputs

\* C25 witness: a run with a log file has returned after three chunks, with
\* three ticks and one 'Done.' in the log.
ThreeTicksInLogFile ==
    /\ func \in MeanFuncs
    /\ logfile # None
    /\ pc = "done"
    /\ Len(nframes) = 3
    /\ Emitted(".") = 3 /\ Emitted("Done.") = 1
    /\ feedback[1].to = "logfile"

ListOfOneIsMultiExtension ==
    [][(pc = "call" /\ pc' # "call" /\ callee \in ResolvingFuncs
        /\ ~isstr /\ Len(filenames) = 1 /\ OnDisk(filenames[1])) =>
          LET hdulist == hdus[filenames[1]]
              twod    == TwoDExts(hdulist)
          IN  IF twod = <<>>
              THEN pc' = "error" /\ err' = "IndexError"
              ELSE /\ pc' # "error"
                   /\ extlist' = twod
                   /\ filenames' = [k \in 1..Len(twod) |-> filenames[1]]
                   /\ totframes' = Len(twod)
                   /\ frame_shape' = Len(hdulist[twod[1] + 1].data)]_vars

\* C27 witness: a call with the list of the one file whose extensions 1 and
\* 3 are 2-D and with ext = 0, the primary HDU without data, has returned
\* the mean of the frames of extensions 1 and 3.
ListOfOneReturnedMeanOfExtensions ==
    /\ func \in ResolvingFuncs
    /\ ~isstr /\ ext = 0
    /\ filenames = <<1, 1>> /\ extlist = <<1, 3>>
    /\ loaded = <<0, 1>>
    /\ pc = "done"
    /\ ret.frame = <<Norm(3, 2), R(2), R(4)>>

\* C28: for an integer ceiling >= 1, lm_mean_frame and calc_mean_frame
\* build the same chunk list and weights, load the frames in the same order
\* and return the same frame: in a run of either, the chunk list, the
\* weights, the positions loaded, the buffer and the frame returned are those
\* fixed by the sequence and the ceiling alone, and neither run fails.
LmAndCalcAgree ==
    (func \in MeanFuncs /\ maxframes # None) =>
        /\ err = ""
        /\ Partitioned =>
              /\ nframes = ChunkSizes(Len(filedata), maxframes)
              /\ chunkweights = [k \in 1..Len(nframes) |->
                                    Norm(nframes[k], Len(filedata))]
        /\ loaded = [k \in 1..Len(loaded) |-> k - 1]
        /\ pc = "load" =>
              /\ Len(loaded) = i * maxframes + Len(chunk_frames)
              /\ chunk_frames = SubSeq(filedata, i * maxframes + 1, Len(loaded))
        /\ pc = "chunk" =>
              avgframe = Accumulate(SubSeq(Chunks(filedata, maxframes), 1, i),
                                    Len(filedata), frame_shape)
        /\ pc = "done" =>
              /\ Len(loaded) = Len(filedata)
              /\ ret = [kind  |-> "frame",
                        frame |-> MeanFrameOf(filedata, maxframes)]

\* C28 witness: lm_mean_frame has returned the frame of three frames in two
\* chunks, one pixel of the first chunk NaN in both of its frames.
LmReturnedTwoChunks ==
    /\ func = "lm_mean_frame"
    /\ pc = "done"
    /\ maxframes = 2 /\ nframes = <<2, 1>>
    /\ loaded = <<0, 1, 2>>
    /\ IsNaN(filedata[1][1]) /\ IsNaN(filedata[2][1])
    /\ ret.frame = MeanFrameOf(filedata, maxframes)

\* Chop-only differencing of a whole number of chop cycles of an even
\* number of frames.
WholeEvenChopCycles ==
    /\ func = "calc_chopnod_frame" /\ cn.bound
    /\ chopfreq # None /\ nodfreq = None
    /\ cn.chop_cycle_frames % 2 = 0
    /\ totframes % cn.chop_cycle_frames = 0

MaskedCeilingOfOneFails ==
    (func = "create_flatfield" /\ Masked /\ maxframes = 1) =>
        /\ Ceiling = 0
        /\ pc \in {"call", "partition", "error"}
        /\ pc = "error" => err = "ZeroDivisionError"
        /\ loaded = <<>> /\ chunk_frames = <<>>
        /\ nframes = <<>> /\ chunkweights = <<>>
        /\ avgframe = <<>>
        /\ ret = NoReturn

\* C30 witness: the masked run with a ceiling of one frame has failed at the
\* partition of its three flat frames.
MaskedPartitionFailed ==
    /\ func = "create_flatfield"
    /\ Masked /\ maxframes = 1
    /\ totframes = 3
    /\ pc = "error" /\ err = "ZeroDivisionError"
    /\ loaded = <<>>

====
